---- MODULE Spec2Model ----
(***************************************************************************)
(* Content-approval FMS: the task state machine (app/models.py Task),      *)
(* its audit log (TaskLog), the workflow steps of a task and the request   *)
(* handlers of app/routes.py (create_task, task_detail) that drive them.   *)
(***************************************************************************)
EXTENDS Integers, Sequences, FiniteSets, TLC

\* ------------------------------------------------------------------ bounds
MaxTasks == 2       \* rows of table tasks
MaxLogs == 8        \* rows of table task_logs
MaxFlowLogs == 2    \* rows of table task_logs while a workflow runs
MaxSteps == 2       \* rows of table workflow_steps
MaxRequests == 2    \* create_task requests that are handled at the same time
MaxClock == 1       \* ticks of the wall clock
TicksPerDay == 1    \* clock ticks that make one calendar day

\* --------------------------------------------------------------- constants
NoUser == 0         \* NULL in a users.id foreign key (ids start at 1)
NoDate == -1        \* NULL in a DateTime / Date column
NoText == "None"    \* Python None in a text column or argument

\* users: 1 is an admin, 2 a manager, 3 an assignee
Users == {1, 2, 3}
ROLE == <<"admin", "manager", "assignee">>

is_admin(u) == ROLE[u] = "admin"
is_manager(u) == ROLE[u] \in {"manager", "admin"}

\* the users Task.transition_to is called for when it is called directly
Callers == {2, 3}

\* request.form.get('notes', ''): the notes a request may carry
Notes == {"redo"}
\* form.plan_date of create_task and new_completion_date of audit_fail
CreatePlanDate == 1
BadDate == -2       \* a new_completion_date that strptime rejects
NewCompletionDates == {NoDate, 2, BadDate}
\* what the 'complete' form submits: nothing, a file or link that fails a
\* validation, an accepted document, an accepted Google Doc link
Submissions == {"missing", "invalid", "document", "sheet_link"}

STATES == {"assigned", "in_progress", "completed", "under_audit",
           "audit_passed", "audit_failed", "cancelled"}

\* a table without the edge from completed to under_audit
TRANSITIONS_completed_held == [s \in STATES |->
    CASE s = "assigned" -> {"in_progress", "cancelled"}
      [] s = "in_progress" -> {"completed", "cancelled"}
      [] s = "completed" -> {"cancelled"}
      [] s = "under_audit" -> {"audit_passed", "audit_failed", "cancelled"}
      [] s = "audit_failed" -> {"in_progress", "cancelled"}
      [] s = "audit_passed" -> {}
      [] s = "cancelled" -> {}]

TRANSITIONS == [s \in STATES |->
    CASE s = "assigned" -> {"in_progress", "cancelled"}
      [] s = "in_progress" -> {"completed", "cancelled"}
      [] s = "completed" -> {"under_audit", "cancelled"}
      [] s = "under_audit" -> {"audit_passed", "audit_failed", "cancelled"}
      [] s = "audit_failed" -> {"in_progress", "cancelled"}
      [] s = "audit_passed" -> {}
      [] s = "cancelled" -> {}]

VARIABLES
    tasks,      \* table tasks: sequence of rows, the index is Task.id
    logs,       \* table task_logs: sequence of rows in id order
    steps,      \* table workflow_steps: set of rows
    now,        \* the wall clock (datetime.utcnow / datetime.now)
    call,       \* the last operation, when it failed, and how it failed
    creating,   \* the create_task requests that are being handled
    reqs,       \* the task_detail requests that are being handled
    base,       \* tasks and logs when the first of these requests began
    templates,  \* table step_templates
    calendar,   \* tables business_hours and holidays
    plan,       \* the last deadline that was computed, and from what
    users       \* table users: the ids of its rows

inflight == <<creating, reqs, base>>
planning == <<templates, calendar, plan>>
vars == <<tasks, logs, steps, now, call, creating, reqs, base, templates, calendar, plan,
          users>>

Requests == 1..MaxRequests

\* two task_detail requests on one task
Racers == {1, 2}

\* ------------------------------------------------------------- ticket ids
\* a ticket id 'TKT-YYYYMMDD-NNN' is [date, seq]: seq is the digit string

RECURSIVE Digits(_)
Digits(n) == IF n < 10 THEN <<n>> ELSE Append(Digits(n \div 10), n % 10)

RECURSIVE ZFill(_, _)
ZFill(s, width) == IF Len(s) >= width THEN s ELSE ZFill(<<0>> \o s, width)

RECURSIVE ParseInt(_)
ParseInt(s) == IF Len(s) = 0 THEN 0
               ELSE 10 * ParseInt(SubSeq(s, 1, Len(s) - 1)) + s[Len(s)]

\* string order of two digit strings (ORDER BY ticket_id on equal prefixes)
RECURSIVE StrLess(_, _)
StrLess(a, b) ==
    IF Len(a) = 0 THEN Len(b) > 0
    ELSE IF Len(b) = 0 THEN FALSE
    ELSE IF a[1] # b[1] THEN a[1] < b[1]
    ELSE StrLess(Tail(a), Tail(b))

DateOf(t) == t \div TicksPerDay

TicketIds(rows) == {rows[i].ticket_id : i \in 1..Len(rows)}

RECURSIVE NextFreeSequence(_, _, _)
NextFreeSequence(rows, date, n) ==
    IF [date |-> date, seq |-> ZFill(Digits(n), 3)] \in TicketIds(rows)
    THEN NextFreeSequence(rows, date, n + 1)
    ELSE n

generate_ticket_id(rows, t) ==
    LET date == DateOf(t)
        today == {id \in TicketIds(rows) : id.date = date}
        last == CHOOSE id \in today : \A o \in today : ~StrLess(id.seq, o.seq)
        first_try == IF today = {} THEN 1 ELSE ParseInt(last.seq) + 1
        n == NextFreeSequence(rows, date, first_try)
    IN [date |-> date, seq |-> ZFill(Digits(n), 3)]

\* ------------------------------------------------------------ Task methods
\* a unit of work: the loaded task, the log rows added to the session and
\* whether a ValueError was raised
Session(task) == [task |-> task, added |-> <<>>, raised |-> FALSE]

\* a check that accepts any known status
can_transition_to_any(task, new_status) == new_status \in STATES

can_transition_to(task, new_status) == new_status \in TRANSITIONS[task.status]

\* an assignment that never takes place
auto_assign_auditor_skipped(task) == task

auto_assign_auditor(task) ==
    IF task.created_by_id # NoUser
    THEN [task EXCEPT !.auditor_id = task.created_by_id]
    ELSE task

\* the block with the notes assignment outside of the audit_failed branch
update_dates_notes_always(task, new_status, notes, t) ==
    CASE new_status = "completed" -> [task EXCEPT !.completed_date = t, !.audit_notes = notes]
      [] new_status = "audit_passed" -> [task EXCEPT !.audit_date = t, !.audit_notes = notes]
      [] new_status = "audit_failed" ->
            [task EXCEPT !.audit_date = t,
                         !.revision_count = task.revision_count + 1,
                         !.audit_notes = notes]
      [] OTHER -> [task EXCEPT !.audit_notes = notes]

\* the block with the count of revisions kept in both audit branches
update_dates_counting_passes(task, new_status, notes, t) ==
    CASE new_status = "completed" -> [task EXCEPT !.completed_date = t]
      [] new_status = "audit_passed" ->
            [task EXCEPT !.audit_date = t,
                         !.revision_count = task.revision_count + 1]
      [] new_status = "audit_failed" ->
            [task EXCEPT !.audit_date = t,
                         !.revision_count = task.revision_count + 1,
                         !.audit_notes = notes]
      [] OTHER -> task

\* the block with a completion stamp in the under_audit branch
update_dates_on_audit_entry(task, new_status, notes, t) ==
    CASE new_status = "completed" -> [task EXCEPT !.completed_date = t]
      [] new_status = "under_audit" -> [task EXCEPT !.completed_date = t]
      [] new_status = "audit_passed" -> [task EXCEPT !.audit_date = t]
      [] new_status = "audit_failed" ->
            [task EXCEPT !.audit_date = t,
                         !.revision_count = task.revision_count + 1,
                         !.audit_notes = notes]
      [] OTHER -> task

\* the "Update dates" block of transition_to
update_dates(task, new_status, notes, t) ==
    CASE new_status = "completed" -> [task EXCEPT !.completed_date = t]
      [] new_status = "audit_passed" -> [task EXCEPT !.audit_date = t]
      [] new_status = "audit_failed" ->
            [task EXCEPT !.audit_date = t,
                         !.revision_count = task.revision_count + 1,
                         !.audit_notes = notes]
      [] OTHER -> task

\* a log row that takes the status after the assignment for the old one
status_log_after(task_id, user, old_status, new_status, notes) ==
    [task_id |-> task_id, user_id |-> user, action |-> "Changed status",
     field_name |-> "status", previous_status |-> new_status,
     new_status |-> new_status, notes |-> notes]

status_log(task_id, user, old_status, new_status, notes) ==
    [task_id |-> task_id, user_id |-> user, action |-> "Changed status",
     field_name |-> "status", previous_status |-> old_status,
     new_status |-> new_status, notes |-> notes]

field_log(task_id, user, action, field_name, new_status, notes) ==
    [task_id |-> task_id, user_id |-> user, action |-> action,
     field_name |-> field_name, previous_status |-> NoText,
     new_status |-> new_status, notes |-> notes]

\* a transition that assigns the auditor at every entry into under_audit
transition_to_reassigning(s, task_id, new_status, user, notes, t) ==
    IF s.raised THEN s
    ELSE IF ~can_transition_to(s.task, new_status)
    THEN [s EXCEPT !.raised = TRUE]
    ELSE LET old_status == s.task.status
             moved == [s.task EXCEPT !.status = new_status]
             audited == IF new_status = "under_audit"
                        THEN auto_assign_auditor(moved) ELSE moved
             dated == update_dates(audited, new_status, notes, t)
         IN [s EXCEPT !.task = dated,
                      !.added = Append(s.added,
                          status_log(task_id, user, old_status, new_status, notes))]

transition_to(s, task_id, new_status, user, notes, t) ==
    IF s.raised THEN s
    ELSE IF ~can_transition_to(s.task, new_status)
    THEN [s EXCEPT !.raised = TRUE]
    ELSE LET old_status == s.task.status
             moved == [s.task EXCEPT !.status = new_status]
             audited == IF new_status = "under_audit" /\ moved.auditor_id = NoUser
                        THEN auto_assign_auditor(moved) ELSE moved
             dated == update_dates(audited, new_status, notes, t)
         IN [s EXCEPT !.task = dated,
                      !.added = Append(s.added,
                          status_log(task_id, user, old_status, new_status, notes))]

\* --------------------------------------------------- business calendar
HoursPerDay == 24
DaysPerWeek == 7
DaysPerYear == 365
LookaheadDays == 14    \* days the scan for a working day looks ahead
MaxStartDay == 6       \* last day of a year on which a deadline is asked for
MaxTat == 20           \* longest turnaround time, in hours
CalendarExhausted == -3     \* no working day within the lookahead

\* an instant is a number of hours since Monday 00:00 of the first week
InstantOf(t) == (t * HoursPerDay) \div TicksPerDay
DayOfInstant(i) == i \div HoursPerDay
Weekday(d) == d % DaysPerWeek

\* table business_hours: one row for each day of the week, 0 = Monday
OfficeHours == [d \in 0..6 |->
    [start_time |-> 9, end_time |-> 18, is_working_day |-> d < 5]]
ClosedHours == [d \in 0..6 |->
    [start_time |-> 9, end_time |-> 18, is_working_day |-> FALSE]]

\* tables business_hours and holidays: a plain office week, one with a
\* holiday on the first Tuesday and a yearly one on the first Thursday,
\* and one without a working day
Office == [hours |-> OfficeHours, holidays |-> {}]
OfficeWithHolidays ==
    [hours |-> OfficeHours,
     holidays |-> {[date |-> 1, is_recurring |-> FALSE],
                   [date |-> 3, is_recurring |-> TRUE]}]
Closed == [hours |-> ClosedHours, holidays |-> {}]
Calendars == {Office, OfficeWithHolidays, Closed}

isHoliday(cal, d) ==
    \E h \in cal.holidays :
        IF h.is_recurring THEN h.date % DaysPerYear = d % DaysPerYear
        ELSE h.date = d

isWorkingDay(cal, d) == cal.hours[Weekday(d)].is_working_day /\ ~isHoliday(cal, d)

WindowStart(cal, d) == d * HoursPerDay + cal.hours[Weekday(d)].start_time
WindowEnd(cal, d) == d * HoursPerDay + cal.hours[Weekday(d)].end_time

\* the start and the end of the window count as inside of it
isWorkingInstant(cal, i) ==
    /\ isWorkingDay(cal, DayOfInstant(i))
    /\ WindowStart(cal, DayOfInstant(i)) <= i
    /\ i <= WindowEnd(cal, DayOfInstant(i))

\* the day by day scan: the first working day from d on, within left days
RECURSIVE nextWorkingDay(_, _, _)
nextWorkingDay(cal, d, left) ==
    IF left = 0 THEN CalendarExhausted
    ELSE IF isWorkingDay(cal, d) THEN d
    ELSE nextWorkingDay(cal, d + 1, left - 1)

nextWindowStartFrom(cal, d) ==
    LET day == nextWorkingDay(cal, d, LookaheadDays)
    IN IF day = CalendarExhausted THEN CalendarExhausted ELSE WindowStart(cal, day)

nextWindowStart(cal, i) ==
    IF isWorkingInstant(cal, i) THEN i
    ELSE IF isWorkingDay(cal, DayOfInstant(i)) /\ i < WindowStart(cal, DayOfInstant(i))
    THEN WindowStart(cal, DayOfInstant(i))
    ELSE nextWindowStartFrom(cal, DayOfInstant(i) + 1)

\* the budget of business hours is used up window by window
RECURSIVE consume(_, _, _)
consume(cal, cursor, budget) ==
    IF cursor = CalendarExhausted THEN CalendarExhausted
    ELSE LET remaining == WindowEnd(cal, DayOfInstant(cursor)) - cursor
         IN IF budget <= remaining THEN cursor + budget
            ELSE consume(cal, nextWindowStartFrom(cal, DayOfInstant(cursor) + 1),
                         budget - remaining)

\* a deadline that counts every hour as a business hour
planDeadlineAroundTheClock(cal, start, tat_hours) == start + tat_hours

planDeadline(cal, start, tat_hours) == consume(cal, nextWindowStart(cal, start), tat_hours)

calculate_planned_ptp(cal, task_start_date, step_order, previous_step_planned, tat_hours) ==
    planDeadline(cal,
                 IF previous_step_planned = NoDate THEN task_start_date
                 ELSE previous_step_planned,
                 tat_hours)

\* ------------------------------------------------------- workflow steps
STEP_STATES == {"pending", "in_progress", "completed", "under_audit",
                "audit_passed", "audit_failed", "cancelled"}

\* the step machine: the task table with pending in the place of assigned
STEP_TRANSITIONS == [s \in STEP_STATES |->
    CASE s = "pending" -> {"in_progress", "cancelled"}
      [] s = "in_progress" -> {"completed", "cancelled"}
      [] s = "completed" -> {"under_audit", "cancelled"}
      [] s = "under_audit" -> {"audit_passed", "audit_failed", "cancelled"}
      [] s = "audit_failed" -> {"in_progress", "cancelled"}
      [] s = "audit_passed" -> {}
      [] s = "cancelled" -> {}]

\* table step_templates: two active templates and an inactive one
StepTemplates == <<[step_order |-> 1, tat_hours |-> 24, is_active |-> TRUE],
                   [step_order |-> 2, tat_hours |-> 12, is_active |-> TRUE],
                   [step_order |-> 3, tat_hours |-> 48, is_active |-> FALSE]>>

\* other contents of the table: nothing active; one active row; rows out of
\* order, the first one with a step_order above 1; two active rows with one
\* step_order
TemplateTables ==
    {StepTemplates,
     <<[step_order |-> 1, tat_hours |-> 24, is_active |-> FALSE]>>,
     <<[step_order |-> 2, tat_hours |-> 5, is_active |-> TRUE]>>,
     <<[step_order |-> 3, tat_hours |-> 4, is_active |-> TRUE],
       [step_order |-> 2, tat_hours |-> 9, is_active |-> TRUE]>>,
     <<[step_order |-> 1, tat_hours |-> 10, is_active |-> TRUE],
       [step_order |-> 1, tat_hours |-> 2, is_active |-> TRUE]>>}

\* step_assignments arguments: none, an assignee and auditor for step 1, or
\* an assignee for step 2
StepAssignments == {<<>>, <<[assigned_to_id |-> 3, auditor_id |-> 2]>>,
                    (2 :> [assigned_to_id |-> 3, auditor_id |-> NoUser])}

\* a filter that lets every template through
active_or_not(table) == DOMAIN table

\* filter_by(is_active=True)
active(table) == {i \in DOMAIN table : table[i].is_active}

\* the results order_by(step_order) may give: the ids of the active
\* templates in an order that does not decrease in step_order
ActiveTemplates(table) ==
    LET ids == active(table)
        n == Cardinality(ids)
    IN {q \in [1..n -> ids] :
          /\ \A i, j \in 1..n : i # j => q[i] # q[j]
          /\ \A i, j \in 1..n : i < j => table[q[i]].step_order <= table[q[j]].step_order}

\* a loop that gives no step the planned date of the step before it
RECURSIVE created_steps_from_start(_, _, _, _, _, _)
created_steps_from_start(task, task_id, table, found, step_assignments, previous_step_planned) ==
    IF found = <<>> THEN <<>>
    ELSE LET template == table[Head(found)]
             given == template.step_order \in DOMAIN step_assignments
             assignment == step_assignments[template.step_order]
             planned_ptp == calculate_planned_ptp(calendar, InstantOf(task.created_at),
                                template.step_order, NoDate, template.tat_hours)
         IN <<[task_id |-> task_id,
               step_template_id |-> Head(found),
               step_order |-> template.step_order,
               tat_hours |-> template.tat_hours,
               assigned_to_id |-> IF given THEN assignment.assigned_to_id ELSE NoUser,
               auditor_id |-> IF given THEN assignment.auditor_id ELSE NoUser,
               planned_ptp |-> planned_ptp,
               status |-> "pending"]>>
            \o created_steps_from_start(task, task_id, table, Tail(found),
                                        step_assignments, planned_ptp)

\* the loop over the templates found
RECURSIVE created_steps(_, _, _, _, _, _)
created_steps(task, task_id, table, found, step_assignments, previous_step_planned) ==
    IF found = <<>> THEN <<>>
    ELSE LET template == table[Head(found)]
             given == template.step_order \in DOMAIN step_assignments
             assignment == step_assignments[template.step_order]
             planned_ptp == calculate_planned_ptp(calendar, InstantOf(task.created_at),
                                template.step_order, previous_step_planned,
                                template.tat_hours)
         IN <<[task_id |-> task_id,
               step_template_id |-> Head(found),
               step_order |-> template.step_order,
               tat_hours |-> template.tat_hours,
               assigned_to_id |-> IF given THEN assignment.assigned_to_id ELSE NoUser,
               auditor_id |-> IF given THEN assignment.auditor_id ELSE NoUser,
               planned_ptp |-> planned_ptp,
               status |-> "pending"]>>
            \o created_steps(task, task_id, table, Tail(found), step_assignments,
                             planned_ptp)

\* the steps returned when the query gave the templates in the order found
generate_workflow_steps(task, task_id, table, found, step_assignments) ==
    created_steps(task, task_id, table, found, step_assignments, NoDate)

get_all_steps(rows, task_id) == {i \in DOMAIN rows : rows[i].task_id = task_id}

\* a status list that leaves audit_failed out
get_current_step_unfailed(rows, task_id) ==
    LET open == {i \in get_all_steps(rows, task_id) : rows[i].status \in
                   {"pending", "in_progress", "completed", "under_audit"}}
    IN {i \in open : \A j \in open : rows[i].step_order <= rows[j].step_order}

\* the rows ORDER BY step_order ... first() may return: none, or one of the
\* open steps with the lowest step_order
get_current_step(rows, task_id) ==
    LET open == {i \in get_all_steps(rows, task_id) : rows[i].status \in
                   {"pending", "in_progress", "completed", "under_audit", "audit_failed"}}
    IN {i \in open : \A j \in open : rows[i].step_order <= rows[j].step_order}

\* all() over the steps without the test for no steps
is_workflow_complete_of_any(rows, task_id) ==
    \A i \in get_all_steps(rows, task_id) : rows[i].status = "audit_passed"

is_workflow_complete(rows, task_id) ==
    /\ get_all_steps(rows, task_id) # {}
    /\ \A i \in get_all_steps(rows, task_id) : rows[i].status = "audit_passed"

\* a map that sends a failed audit straight back to work
step_to_task_status_returned(step_status) ==
    CASE step_status = "pending" -> "assigned"
      [] step_status = "in_progress" -> "in_progress"
      [] step_status = "completed" -> "completed"
      [] step_status = "under_audit" -> "under_audit"
      [] step_status = "audit_failed" -> "in_progress"
      [] step_status = "audit_passed" -> "in_progress"
      [] OTHER -> "assigned"

step_to_task_status(step_status) ==
    CASE step_status = "pending" -> "assigned"
      [] step_status = "in_progress" -> "in_progress"
      [] step_status = "completed" -> "completed"
      [] step_status = "under_audit" -> "under_audit"
      [] step_status = "audit_failed" -> "audit_failed"
      [] step_status = "audit_passed" -> "in_progress"
      [] OTHER -> "assigned"

\* a complete branch that sets the status and leaves the dates alone
update_task_status_from_workflow_undated(task, rows, task_id, current, t) ==
    IF is_workflow_complete(rows, task_id)
    THEN [task EXCEPT !.status = "audit_passed"]
    ELSE IF current # 0
    THEN LET mapped_status == step_to_task_status(rows[current].status)
         IN IF task.status # mapped_status
            THEN [task EXCEPT !.status = mapped_status]
            ELSE task
    ELSE task

\* the task after update_task_status_from_workflow, current being the step
\* get_current_step returned (0 for none)
update_task_status_from_workflow(task, rows, task_id, current, t) ==
    IF is_workflow_complete(rows, task_id)
    THEN [task EXCEPT !.status = "audit_passed",
                      !.completed_date = t,
                      !.audit_date = t]
    ELSE IF current # 0
    THEN LET mapped_status == step_to_task_status(rows[current].status)
         IN IF task.status # mapped_status
            THEN [task EXCEPT !.status = mapped_status]
            ELSE task
    ELSE task

\* ------------------------------------------------------ request handlers
can_view(task, u) ==
    \/ is_manager(u)
    \/ task.assigned_to_id = u
    \/ task.auditor_id = u
    \/ task.created_by_id = u

only_assignee(task, u) == task.assigned_to_id = u

\* an audit guard that lets every viewer of the task through
only_auditor_any(task, u) == TRUE

only_auditor(task, u) == task.auditor_id = u \/ is_manager(u)

\* how a request ends: the session, whether db.session.commit() was reached,
\* and the message flashed instead ("" when the handler only redirects)
Done(s, committed, flash) ==
    [task |-> s.task, added |-> s.added, raised |-> s.raised,
     commit |-> committed /\ ~s.raised,
     flash |-> IF s.raised THEN "ValueError" ELSE flash]

submit(s, task_id, u, submission) ==
    IF submission = "document"
    THEN [s EXCEPT !.task.submission_type = "document",
                   !.added = Append(s.added, field_log(task_id, u,
                       "Document uploaded", "document_file", NoText,
                       "Task completion document uploaded"))]
    ELSE [s EXCEPT !.task.submission_type = "sheet_link",
                   !.added = Append(s.added, field_log(task_id, u,
                       "Google Doc link submitted", "sheet_url", NoText,
                       "Task completion Google Doc link provided"))]

new_plan_date(s, task_id, u, new_date) ==
    IF new_date = NoDate THEN s
    ELSE IF new_date = BadDate THEN [s EXCEPT !.raised = TRUE]
    ELSE [s EXCEPT !.task.plan_date = new_date,
                   !.added = Append(s.added, field_log(task_id, u,
                       "Plan date updated", "plan_date", NoText,
                       "New deadline set by auditor after audit failure"))]

\* the POST branch of task_detail, run on the task row the request loaded
task_detail(task, task_id, u, action, notes, submission, new_date, t) ==
    LET s == Session(task)
    IN CASE action = "start" ->
              IF ~only_assignee(task, u) THEN Done(s, FALSE, "Only the assignee")
              ELSE IF can_transition_to(task, "in_progress")
              THEN Done(transition_to(s, task_id, "in_progress", u, notes, t), TRUE, "")
              ELSE Done(s, FALSE, "")
         [] action = "complete" ->
              IF ~only_assignee(task, u) THEN Done(s, FALSE, "Only the assignee")
              ELSE IF can_transition_to(task, "completed")
              THEN IF submission \in {"missing", "invalid"}
                   THEN Done(s, FALSE, "Please submit")
                   ELSE LET s1 == submit(s, task_id, u, submission)
                            s2 == transition_to(s1, task_id, "completed", u, notes, t)
                            s3 == IF can_transition_to(s2.task, "under_audit")
                                  THEN transition_to(s2, task_id, "under_audit", u,
                                                     "Auto-assigned for audit", t)
                                  ELSE s2
                        IN Done(s3, TRUE, "")
              ELSE Done(s, FALSE, "")
         [] action = "cancel" ->
              IF ~is_manager(u) THEN Done(s, FALSE, "Only managers")
              ELSE IF can_transition_to(task, "cancelled")
              THEN Done(transition_to(s, task_id, "cancelled", u, notes, t), TRUE, "")
              ELSE Done(s, FALSE, "")
         [] action = "audit_pass" ->
              IF ~only_auditor(task, u) THEN Done(s, FALSE, "Only the assigned auditor")
              ELSE IF can_transition_to(task, "audit_passed")
              THEN Done(transition_to(s, task_id, "audit_passed", u, notes, t), TRUE, "")
              ELSE Done(s, FALSE, "")
         [] action = "audit_fail" ->
              IF ~only_auditor(task, u) THEN Done(s, FALSE, "Only the assigned auditor")
              ELSE IF can_transition_to(task, "audit_failed")
              THEN LET s1 == new_plan_date(s, task_id, u, new_date)
                       s2 == transition_to(s1, task_id, "audit_failed", u, notes, t)
                       s3 == IF can_transition_to(s2.task, "in_progress")
                             THEN transition_to(s2, task_id, "in_progress", u,
                                                "Returned for revision", t)
                             ELSE s2
                   IN Done(s3, TRUE, "")
              ELSE Done(s, FALSE, "")
         [] OTHER -> Done(s, FALSE, "")

Actions == {"start", "complete", "cancel", "audit_pass", "audit_fail"}

\* the actions the page of a task offers to user u
get_available_actions(task, u) ==
    (IF task.status = "assigned" /\ task.assigned_to_id = u THEN {"start"} ELSE {})
    \cup (IF task.status = "in_progress" /\ task.assigned_to_id = u
          THEN {"complete"} ELSE {})
    \cup (IF task.status = "under_audit" /\ (task.auditor_id = u \/ is_manager(u))
          THEN {"audit_pass", "audit_fail"} ELSE {})
    \cup (IF is_manager(u) /\ task.status \notin {"audit_passed", "cancelled"}
          THEN {"cancel"} ELSE {})

\* db.session.commit(): the UPDATE writes the columns the session changed
flush(row, loaded, changed) ==
    [f \in DOMAIN row |-> IF changed[f] # loaded[f] THEN changed[f] ELSE row[f]]

new_task(ticket_id, creator, assignee, plan_date, t) ==
    [ticket_id |-> ticket_id, created_by_id |-> creator, created_at |-> t,
     assigned_to_id |-> assignee, auditor_id |-> NoUser,
     plan_date |-> plan_date, completed_date |-> NoDate, audit_date |-> NoDate,
     revision_count |-> 0, audit_notes |-> NoText, submission_type |-> NoText,
     status |-> "assigned"]

\* what the caller of the last operation saw when it did not succeed
Called(op, result) == [op |-> op, result |-> result]
Succeeded == Called("", "")

\* ---------------------------------------------------------------- actions
\* no request is being handled
Idle == [pc |-> "idle"]
NoBase == [tasks |-> <<>>, logs |-> <<>>]
NoneInFlight ==
    /\ creating = [r \in Requests |-> Idle]
    /\ reqs = [r \in Racers |-> Idle]
    /\ base = NoBase

\* nothing was planned
NoPlan == [start |-> NoDate, tat_hours |-> 0, deadline |-> NoDate]

\* the tables an installation starts with
Configured ==
    /\ templates = StepTemplates
    /\ calendar = Office
    /\ plan = NoPlan

Init ==
    /\ tasks = <<>>
    /\ logs = <<>>
    /\ steps = <<>>
    /\ now = 0
    /\ call = Succeeded
    /\ NoneInFlight
    /\ users = Users
    /\ Configured

\* create_task run alone to its end: the task row and its 'Task created'
\* log row
create_task(u, assignee) ==
    /\ IF ROLE[u] \notin {"manager", "admin"}
       THEN /\ call' = Called("create_task", "denied")
            /\ UNCHANGED <<tasks, logs>>
       ELSE LET task == new_task(generate_ticket_id(tasks, now), u, assignee,
                                 CreatePlanDate, now)
                task_id == Len(tasks) + 1
            IN /\ tasks' = Append(tasks, task)
               /\ logs' = Append(logs, field_log(task_id, u, "Task created",
                                     "assigned_to", "assigned", "Task assigned"))
               /\ call' = Succeeded
    /\ UNCHANGED <<steps, now>>
    /\ UNCHANGED inflight
    /\ UNCHANGED <<planning, users>>

CreateTask(u, assignee) ==
    /\ Len(tasks) < MaxTasks
    /\ Len(logs) < MaxLogs
    /\ create_task(u, assignee)

\* Task.transition_to called on a loaded task, then committed
TransitionTo(task_id, new_status, u, notes) ==
    /\ task_id \in DOMAIN tasks
    /\ LET s == transition_to(Session(tasks[task_id]), task_id, new_status, u,
                              notes, now)
       IN IF s.raised
          THEN /\ call' = Called("transition_to", "ValueError")
               /\ UNCHANGED <<tasks, logs>>
          ELSE /\ Len(logs) + Len(s.added) <= MaxLogs
               /\ tasks' = [tasks EXCEPT ![task_id] = flush(@, tasks[task_id], s.task)]
               /\ logs' = logs \o s.added
               /\ call' = Succeeded
    /\ UNCHANGED <<steps, now>>
    /\ UNCHANGED inflight
    /\ UNCHANGED <<planning, users>>

\* a POST to /task/<task_id> by user u
TaskDetail(task_id, u, action, notes, submission, new_date) ==
    /\ task_id \in DOMAIN tasks
    /\ IF ~can_view(tasks[task_id], u)
       THEN /\ call' = Called("task_detail", "You do not have permission")
            /\ UNCHANGED <<tasks, logs>>
       ELSE LET s == task_detail(tasks[task_id], task_id, u, action, notes,
                                 submission, new_date, now)
            IN IF s.commit
               THEN /\ Len(logs) + Len(s.added) <= MaxLogs
                    /\ tasks' = [tasks EXCEPT ![task_id] = flush(@, tasks[task_id], s.task)]
                    /\ logs' = logs \o s.added
                    /\ call' = Succeeded
               ELSE /\ call' = Called("task_detail", s.flash)
                    /\ UNCHANGED <<tasks, logs>>
    /\ UNCHANGED <<steps, now>>
    /\ UNCHANGED inflight
    /\ UNCHANGED <<planning, users>>

\* generate_workflow_steps and the commit of its caller
GenerateWorkflowSteps(task_id, step_assignments) ==
    /\ task_id \in DOMAIN tasks
    /\ \E found \in ActiveTemplates(templates) :
          LET created == generate_workflow_steps(tasks[task_id], task_id, templates,
                                                 found, step_assignments)
          IN IF \E i \in DOMAIN created : created[i].planned_ptp = CalendarExhausted
             THEN /\ call' = Called("generate_workflow_steps", "CalendarExhausted")
                  /\ UNCHANGED steps
             ELSE /\ Len(steps) + Len(created) <= MaxSteps
                  /\ steps' = steps \o created
                  /\ call' = IF created = <<>>
                             THEN Called("generate_workflow_steps", "[]")
                             ELSE Succeeded
    /\ UNCHANGED <<tasks, logs, now>>
    /\ UNCHANGED inflight
    /\ UNCHANGED <<planning, users>>

UpdateTaskStatusFromWorkflow(task_id) ==
    /\ task_id \in DOMAIN tasks
    /\ \E current \in IF get_current_step(steps, task_id) = {} THEN {0}
                      ELSE get_current_step(steps, task_id) :
          tasks' = [tasks EXCEPT ![task_id] =
              update_task_status_from_workflow(@, steps, task_id, current, now)]
    /\ call' = Succeeded
    /\ UNCHANGED <<logs, steps, now>>
    /\ UNCHANGED inflight
    /\ UNCHANGED <<planning, users>>

\* the current step of a task moves along the step state machine
StepTransition(i, new_status) ==
    /\ i \in DOMAIN steps
    /\ i \in get_current_step(steps, steps[i].task_id)
    /\ new_status \in STEP_TRANSITIONS[steps[i].status]
    /\ steps' = [steps EXCEPT ![i].status = new_status]
    /\ call' = Succeeded
    /\ UNCHANGED <<tasks, logs, now>>
    /\ UNCHANGED inflight
    /\ UNCHANGED <<planning, users>>

\* any step of any task moves along the step state machine
StepMove(i, new_status) ==
    /\ i \in DOMAIN steps
    /\ new_status \in STEP_TRANSITIONS[steps[i].status]
    /\ steps' = [steps EXCEPT ![i].status = new_status]
    /\ call' = Succeeded
    /\ UNCHANGED <<tasks, logs, now>>
    /\ UNCHANGED inflight
    /\ UNCHANGED <<planning, users>>

\* what the caller of a GET of /task/<task_id> saw: the actions offered
Viewed(offered) == [op |-> "task_detail", result |-> "", offered |-> offered]

\* a GET of /task/<task_id> by user u
TaskDetailView(task_id, u) ==
    /\ task_id \in DOMAIN tasks
    /\ call' = IF ~can_view(tasks[task_id], u)
               THEN Called("task_detail", "You do not have permission")
               ELSE Viewed(get_available_actions(tasks[task_id], u))
    /\ UNCHANGED <<tasks, logs, steps, now>>
    /\ UNCHANGED inflight
    /\ UNCHANGED <<planning, users>>

\* the clock advances
Tick ==
    /\ now < MaxClock
    /\ now' = now + 1
    /\ call' = Succeeded
    /\ UNCHANGED <<tasks, logs, steps>>
    /\ UNCHANGED inflight
    /\ UNCHANGED <<planning, users>>

\* the form fields an action reads
FormSubmissions(action) == IF action = "complete" THEN Submissions ELSE {"missing"}
FormDates(action) == IF action = "audit_fail" THEN NewCompletionDates ELSE {NoDate}

\* a database that holds one task, as create_task leaves it
TaskCreated(creators, assignees) ==
    /\ \E u \in creators, assignee \in assignees :
          /\ tasks = <<new_task(generate_ticket_id(<<>>, 0), u, assignee, CreatePlanDate, 0)>>
          /\ logs = <<field_log(1, u, "Task created", "assigned_to", "assigned",
                                "Task assigned")>>
    /\ steps = <<>>
    /\ now = 0
    /\ call = Succeeded
    /\ NoneInFlight
    /\ users = Users

InitWith(creators, assignees) == TaskCreated(creators, assignees) /\ Configured

\* the task the manager created for the assignee, under any of the template
\* tables and calendars
InitSteps ==
    /\ TaskCreated({2}, {3})
    /\ templates \in TemplateTables
    /\ calendar \in Calendars
    /\ plan = NoPlan

\* a task any manager created for any user
InitTask == InitWith({c \in Users : ROLE[c] \in {"manager", "admin"}}, Users)

\* a task the manager created for the assignee
InitFlow == InitWith({2}, {3})

Create == \E u \in Users, assignee \in Users : CreateTask(u, assignee)

Transition ==
    \E task_id \in DOMAIN tasks, new_status \in STATES, u \in Callers, notes \in Notes :
        TransitionTo(task_id, new_status, u, notes)

Detail ==
    \E task_id \in DOMAIN tasks, u \in Users, action \in Actions, notes \in Notes :
       \E submission \in FormSubmissions(action), new_date \in FormDates(action) :
          TaskDetail(task_id, u, action, notes, submission, new_date)

Generate ==
    \E task_id \in DOMAIN tasks, a \in StepAssignments : GenerateWorkflowSteps(task_id, a)

Step == \E i \in DOMAIN steps, new_status \in STEP_STATES : StepTransition(i, new_status)

Sync == \E task_id \in DOMAIN tasks : UpdateTaskStatusFromWorkflow(task_id)

\* one task driven by direct calls of Task.transition_to
NextFSM == Transition \/ Tick
SpecFSM == InitFlow /\ [][NextFSM]_vars

\* the task with no auditor, or with one its row was given when it was made
\* (Task(..., auditor_id=...), as seed_data.py does)
InitAudited ==
    /\ \E auditor \in {NoUser, 1} :
          tasks = <<[new_task(generate_ticket_id(<<>>, 0), 2, 3, CreatePlanDate, 0)
                        EXCEPT !.auditor_id = auditor]>>
    /\ logs = <<field_log(1, 2, "Task created", "assigned_to", "assigned", "Task assigned")>>
    /\ steps = <<>>
    /\ now = 0
    /\ call = Succeeded
    /\ NoneInFlight
    /\ users = Users
    /\ Configured

\* direct calls of Task.transition_to on a task with or without an auditor
SpecAudited == InitAudited /\ [][NextFSM]_vars

\* one task driven by the requests of its users
NextRoutes == Detail \/ Tick
SpecRoutes == InitTask /\ [][NextRoutes]_vars

\* one task with a workflow of steps
FlowDetail == Detail /\ Len(logs') <= MaxFlowLogs

NextWorkflow ==
    \/ FlowDetail
    \/ Generate
    \/ Step
    \/ Sync
    \/ Tick
SpecWorkflow == InitFlow /\ [][NextWorkflow]_vars

Move == \E i \in DOMAIN steps, new_status \in STEP_STATES : StepMove(i, new_status)

\* materialization under any template table and calendar
NextSteps == Generate \/ Move \/ Tick
SpecSteps == InitSteps /\ [][NextSteps]_vars

\* the assignee starts the task or the manager cancels it
StartOrCancel ==
    /\ \E task_id \in DOMAIN tasks, u \in Callers, action \in {"start", "cancel"},
          notes \in Notes : TaskDetail(task_id, u, action, notes, "missing", NoDate)
    /\ Len(logs') <= MaxFlowLogs

\* the task status derived from steps in any statuses
NextSync == StartOrCancel \/ Generate \/ Move \/ Sync
SpecSync == InitFlow /\ [][NextSync]_vars

View == \E task_id \in DOMAIN tasks, u \in Users : TaskDetailView(task_id, u)

\* the page of a task whose status is derived from its steps
NextView == Generate \/ Move \/ Sync \/ View
SpecView == InitFlow /\ [][NextView]_vars

\* ------------------------------------------------------------ delete_user
\* a flush that leaves the rows of the relationships of the user alone
delete_passively(ids, rows, entries, user) ==
    [users |-> ids \ {user}, tasks |-> rows, raised |-> FALSE]

\* db.session.delete(user) and the flush of the commit: User.audited_tasks
\* and User.task_logs have no delete cascade, so the rows they reach are
\* given NULL for their foreign key before the user row goes; for
\* task_logs.user_id, which is NOT NULL, the flush raises an IntegrityError
delete(ids, rows, entries, user) ==
    IF \E i \in DOMAIN entries : entries[i].user_id = user
    THEN [users |-> ids, tasks |-> rows, raised |-> TRUE]
    ELSE [users |-> ids \ {user},
          tasks |-> [i \in DOMAIN rows |->
                       IF rows[i].auditor_id = user
                       THEN [rows[i] EXCEPT !.auditor_id = NoUser]
                       ELSE rows[i]],
          raised |-> FALSE]

\* a POST to /user/<user_id>/delete by user admin
DeleteUser(admin, user) ==
    /\ admin \in users
    /\ LET created_tasks_count ==
               Cardinality({i \in DOMAIN tasks : tasks[i].created_by_id = user})
           assigned_tasks_count ==
               Cardinality({i \in DOMAIN tasks : tasks[i].assigned_to_id = user})
           db == delete(users, tasks, logs, user)
       IN IF ~is_admin(admin)
          THEN /\ call' = Called("delete_user", "403")
               /\ UNCHANGED <<tasks, users>>
          ELSE IF user \notin users
          THEN /\ call' = Called("delete_user", "404")
               /\ UNCHANGED <<tasks, users>>
          ELSE IF user = admin
          THEN /\ call' = Called("delete_user", "You cannot delete yourself")
               /\ UNCHANGED <<tasks, users>>
          ELSE IF created_tasks_count > 0 \/ assigned_tasks_count > 0
          THEN /\ call' = Called("delete_user", "Cannot delete user")
               /\ UNCHANGED <<tasks, users>>
          ELSE IF db.raised
          THEN /\ call' = Called("delete_user", "IntegrityError")
               /\ UNCHANGED <<tasks, users>>
          ELSE /\ users' = db.users
               /\ tasks' = db.tasks
               /\ call' = Succeeded
    /\ UNCHANGED <<logs, steps, now>>
    /\ UNCHANGED inflight
    /\ UNCHANGED planning

Delete == \E admin \in Users, user \in Users : DeleteUser(admin, user)

\* login_required: the requests of the users that exist
DetailOfUser ==
    \E task_id \in DOMAIN tasks, u \in users, action \in Actions, notes \in Notes :
       \E submission \in FormSubmissions(action), new_date \in FormDates(action) :
          TaskDetail(task_id, u, action, notes, submission, new_date)

\* one task, the requests of its users and the deletion of users
NextUsers == DetailOfUser \/ Delete
SpecUsers == InitTask /\ [][NextUsers]_vars

\* ------------------------------------------------------ the scheduler
\* the instants a deadline is asked from: any hour of the first days of the
\* first and of the second year
Starts ==
    {d * HoursPerDay + h : d \in (0..MaxStartDay) \cup (DaysPerYear..(DaysPerYear + MaxStartDay)),
                           h \in 0..(HoursPerDay - 1)}

\* planDeadline is called
PlanDeadline(start, tat_hours) ==
    /\ plan = NoPlan
    /\ plan' = [start |-> start, tat_hours |-> tat_hours,
                deadline |-> planDeadline(calendar, start, tat_hours)]
    /\ UNCHANGED <<tasks, logs, steps, now, call, templates, calendar, users>>
    /\ UNCHANGED inflight

Plan == \E start \in Starts, tat_hours \in 1..MaxTat : PlanDeadline(start, tat_hours)

\* an installation with any of the calendars
InitSchedule ==
    /\ tasks = <<>>
    /\ logs = <<>>
    /\ steps = <<>>
    /\ now = 0
    /\ call = Succeeded
    /\ NoneInFlight
    /\ users = Users
    /\ templates = StepTemplates
    /\ calendar \in Calendars
    /\ plan = NoPlan

NextSchedule == Plan \/ Tick
SpecSchedule == InitSchedule /\ [][NextSchedule]_vars

\* ------------------------------------------------ a day with many tickets
MaxIssued == 1000   \* most tickets that were issued on the first day

\* the numbers of tasks the first day may have left in the table
IssuedCounts == {0, 9, 99, 999, MaxIssued}

\* the tasks and the log after n create_task requests of the first day
IssuedTasks(n) ==
    [i \in 1..n |-> new_task([date |-> 0, seq |-> ZFill(Digits(i), 3)], 2, 3,
                             CreatePlanDate, 0)]
IssuedLogs(n) ==
    [i \in 1..n |-> field_log(i, 2, "Task created", "assigned_to", "assigned",
                              "Task assigned")]

InitIssued ==
    /\ \E n \in IssuedCounts : tasks = IssuedTasks(n) /\ logs = IssuedLogs(n)
    /\ steps = <<>>
    /\ now = 0
    /\ call = Succeeded
    /\ NoneInFlight
    /\ users = Users
    /\ Configured

\* a create_task request on one of these days
CreateTaskOfDay(u, assignee) ==
    /\ \E n \in IssuedCounts : n <= Len(tasks) /\ Len(tasks) < n + MaxTasks
    /\ create_task(u, assignee)

CreateOfDay == \E u \in Users, assignee \in {3} : CreateTaskOfDay(u, assignee)

NextIssue == CreateOfDay \/ Tick
SpecIssue == InitIssued /\ [][NextIssue]_vars

\* ------------------------------------------------ create_task, step by step
\* the request checks the role and calls Task.generate_ticket_id
CreateGenerate(r, u, assignee) ==
    /\ creating[r].pc = "idle"
    /\ Len(tasks) + Cardinality({q \in Requests : creating[q].pc = "generated"}) < MaxTasks
    /\ IF ROLE[u] \notin {"manager", "admin"}
       THEN /\ call' = Called("create_task", "denied")
            /\ UNCHANGED creating
       ELSE /\ creating' = [creating EXCEPT ![r] =
                   [pc |-> "generated", user |-> u, assignee |-> assignee,
                    ticket_id |-> generate_ticket_id(tasks, now)]]
            /\ call' = Succeeded
    /\ UNCHANGED <<tasks, logs, steps, now, reqs, base>>
    /\ UNCHANGED <<planning, users>>

\* db.session.add(task); db.session.commit(): tasks.ticket_id is unique
CreateCommitTask(r) ==
    /\ creating[r].pc = "generated"
    /\ IF creating[r].ticket_id \in TicketIds(tasks)
       THEN /\ creating' = [creating EXCEPT ![r] = Idle]
            /\ call' = Called("create_task", "IntegrityError")
            /\ UNCHANGED tasks
       ELSE /\ tasks' = Append(tasks, new_task(creating[r].ticket_id, creating[r].user,
                                               creating[r].assignee, CreatePlanDate, now))
            /\ creating' = [creating EXCEPT ![r] =
                   [pc |-> "committed", user |-> creating[r].user,
                    task_id |-> Len(tasks) + 1]]
            /\ call' = Succeeded
    /\ UNCHANGED <<logs, steps, now, reqs, base>>
    /\ UNCHANGED <<planning, users>>

\* the 'Task created' log row and its commit
CreateCommitLog(r) ==
    /\ creating[r].pc = "committed"
    /\ Len(logs) < MaxLogs
    /\ logs' = Append(logs, field_log(creating[r].task_id, creating[r].user,
                          "Task created", "assigned_to", "assigned", "Task assigned"))
    /\ creating' = [creating EXCEPT ![r] = Idle]
    /\ call' = Succeeded
    /\ UNCHANGED <<tasks, steps, now, reqs, base>>
    /\ UNCHANGED <<planning, users>>

\* the request ends in an error after the commit of the task row: the query
\* for the assignee or the commit of the log row fails, or the worker dies
CreateFail(r) ==
    /\ creating[r].pc = "committed"
    /\ creating' = [creating EXCEPT ![r] = Idle]
    /\ call' = Called("create_task", "InternalServerError")
    /\ UNCHANGED <<tasks, logs, steps, now, reqs, base>>
    /\ UNCHANGED <<planning, users>>

Generating == \E r \in Requests, u \in Users, assignee \in Users : CreateGenerate(r, u, assignee)
CommittingTask == \E r \in Requests : CreateCommitTask(r)
CommittingLog == \E r \in Requests : CreateCommitLog(r)
Failing == \E r \in Requests : CreateFail(r)

\* create_task requests handled at the same time
NextTicket == Generating \/ CommittingTask \/ CommittingLog \/ Failing \/ Tick
SpecTicket == Init /\ [][NextTicket]_vars

\* ------------------------------------------------ task_detail, step by step
\* Task.query.get_or_404: the request loads the task row into its session
DetailLoad(r, task_id, u, action, notes, submission, new_date) ==
    /\ reqs[r].pc = "idle"
    /\ task_id \in DOMAIN tasks
    /\ \A q \in Racers : reqs[q].pc # "done"
    /\ reqs' = [reqs EXCEPT ![r] =
          [pc |-> "loaded", task_id |-> task_id, user |-> u, action |-> action,
           notes |-> notes, submission |-> submission, new_date |-> new_date,
           loaded |-> tasks[task_id]]]
    /\ base' = IF \A q \in Racers : reqs[q].pc = "idle"
               THEN [tasks |-> tasks, logs |-> logs] ELSE base
    /\ call' = Succeeded
    /\ UNCHANGED <<tasks, logs, steps, now, creating>>
    /\ UNCHANGED <<planning, users>>

\* what a request does to the database when it runs on the row it loaded
Handled(db, q, loaded, t) ==
    IF ~can_view(loaded, q.user) THEN db
    ELSE LET s == task_detail(loaded, q.task_id, q.user, q.action, q.notes,
                              q.submission, q.new_date, t)
         IN IF s.commit
            THEN [tasks |-> [db.tasks EXCEPT ![q.task_id] = flush(@, loaded, s.task)],
                  logs |-> db.logs \o s.added]
            ELSE db

\* the handler runs on the loaded row up to its db.session.commit()
DetailCommit(r) ==
    /\ reqs[r].pc = "loaded"
    /\ LET db == Handled([tasks |-> tasks, logs |-> logs], reqs[r], reqs[r].loaded, now)
       IN /\ Len(db.logs) <= MaxLogs
          /\ tasks' = db.tasks
          /\ logs' = db.logs
    /\ reqs' = [reqs EXCEPT ![r].pc = "done"]
    /\ call' = Succeeded
    /\ UNCHANGED <<steps, now, creating, base>>
    /\ UNCHANGED <<planning, users>>

\* the responses are sent
DetailEnd ==
    /\ \E r \in Racers : reqs[r].pc = "done"
    /\ \A r \in Racers : reqs[r].pc \in {"idle", "done"}
    /\ reqs' = [r \in Racers |-> Idle]
    /\ base' = NoBase
    /\ call' = Succeeded
    /\ UNCHANGED <<tasks, logs, steps, now, creating>>
    /\ UNCHANGED <<planning, users>>

Loading ==
    \E r \in Racers, task_id \in DOMAIN tasks, u \in Callers, action \in Actions,
       notes \in Notes :
       \E submission \in {"sheet_link"}, new_date \in {NoDate} :
          DetailLoad(r, task_id, u, action, notes, submission, new_date)
Committing == \E r \in Racers : DetailCommit(r)

\* task_detail requests on one task handled at the same time
NextRace == Loading \/ Committing \/ DetailEnd \/ Tick
SpecRace == InitFlow /\ [][NextRace]_vars

\* ------------------------------------------------------------- properties
\* the status rows a step adds to the log of a task
AddedStatusLogs(task_id) ==
    SelectSeq(SubSeq(logs', Len(logs) + 1, Len(logs')),
              LAMBDA l : l.task_id = task_id /\ l.field_name = "status")

\* C1: a call of transition_to whose target is not in TRANSITIONS[status]
\* raises the ValueError and leaves the task row and the log as they were
C1_InvalidTransitionRejected ==
    [][\A task_id \in DOMAIN tasks, new_status \in STATES, u \in Callers, notes \in Notes :
          (/\ TransitionTo(task_id, new_status, u, notes)
           /\ new_status \notin TRANSITIONS[tasks[task_id].status])
          => /\ call' = Called("transition_to", "ValueError")
             /\ tasks' = tasks
             /\ logs' = logs]_vars

C1_Witness ==
    /\ call = Called("transition_to", "ValueError")
    /\ tasks[1].status = "under_audit"
    /\ tasks[1].revision_count = 1

\* C2: a successful call of transition_to appends exactly one log row, for
\* that task, with the status before the call and the requested status, and
\* leaves every earlier row as it was
C2_OneLogPerTransition ==
    [][\A task_id \in DOMAIN tasks, new_status \in STATES, u \in Callers, notes \in Notes :
          (/\ TransitionTo(task_id, new_status, u, notes)
           /\ new_status \in TRANSITIONS[tasks[task_id].status])
          => /\ Len(logs') = Len(logs) + 1
             /\ SubSeq(logs', 1, Len(logs)) = logs
             /\ logs'[Len(logs')].task_id = task_id
             /\ logs'[Len(logs')].field_name = "status"
             /\ logs'[Len(logs')].previous_status = tasks[task_id].status
             /\ logs'[Len(logs')].new_status = new_status
             /\ logs'[Len(logs')].user_id = u]_vars

C2_Witness ==
    /\ Len(logs) >= 3
    /\ logs[Len(logs)].field_name = "status"
    /\ logs[Len(logs)].previous_status = "in_progress"
    /\ logs[Len(logs)].new_status = "completed"
    /\ tasks[1].status = "completed"

\* C5: a transition into audit_failed adds exactly 1 to revision_count, and
\* no operation lowers revision_count
C5_RevisionCount ==
    [][\A task_id \in DOMAIN tasks :
          /\ tasks'[task_id].revision_count >= tasks[task_id].revision_count
          /\ \A u \in Callers, notes \in Notes :
                (/\ TransitionTo(task_id, "audit_failed", u, notes)
                 /\ "audit_failed" \in TRANSITIONS[tasks[task_id].status])
                => tasks'[task_id].revision_count = tasks[task_id].revision_count + 1
          /\ (tasks'[task_id].status = "audit_failed" /\ tasks[task_id].status # "audit_failed")
                => tasks'[task_id].revision_count = tasks[task_id].revision_count + 1]_vars

\* C10: a task_detail request moves assigned -> in_progress and in_progress ->
\* completed only for the task's assignee, and under_audit -> audit_passed or
\* audit_failed only for the task's auditor or a manager or admin; a start,
\* complete or audit request of any other user changes neither task nor log
C10_RoleGuards ==
    [][\A task_id \in DOMAIN tasks, u \in Users, action \in Actions, notes \in Notes :
          \A submission \in FormSubmissions(action), new_date \in FormDates(action) :
             TaskDetail(task_id, u, action, notes, submission, new_date)
             => LET task == tasks[task_id]
                    added == AddedStatusLogs(task_id)
                IN /\ (action \in {"start", "complete"} /\ u # task.assigned_to_id)
                         => (tasks' = tasks /\ logs' = logs)
                   /\ (/\ action \in {"audit_pass", "audit_fail"}
                       /\ u # task.auditor_id
                       /\ ROLE[u] \notin {"manager", "admin"})
                         => (tasks' = tasks /\ logs' = logs)
                   /\ \A i \in DOMAIN added :
                         /\ (<<added[i].previous_status, added[i].new_status>> \in
                               {<<"assigned", "in_progress">>, <<"in_progress", "completed">>})
                            => u = task.assigned_to_id
                         /\ (/\ added[i].previous_status = "under_audit"
                             /\ added[i].new_status \in {"audit_passed", "audit_failed"})
                            => (u = task.auditor_id \/ ROLE[u] \in {"manager", "admin"})]_vars

\* the assignee of a task under audit asked for an audit decision and was refused
C10_Witness ==
    /\ call = Called("task_detail", "Only the assigned auditor")
    /\ tasks[1].status = "under_audit"
    /\ tasks[1].auditor_id # NoUser
    /\ tasks[1].assigned_to_id # tasks[1].auditor_id

\* the rows chain the status from old to new, one row for each change
Chain(added, old, new) ==
    /\ added[1].previous_status = old
    /\ added[Len(added)].new_status = new
    /\ \A i \in DOMAIN added : added[i].previous_status # added[i].new_status
    /\ \A i \in 1..(Len(added) - 1) : added[i + 1].previous_status = added[i].new_status

\* C3: the status of a task is always one of STATES, and every change of it,
\* by any operation, goes along the edges of TRANSITIONS
C3_StatusFollowsTransitions ==
    [][\A task_id \in DOMAIN tasks :
          LET added == AddedStatusLogs(task_id)
              old == tasks[task_id].status
              new == tasks'[task_id].status
          IN /\ old \in STATES
             /\ new \in STATES
             /\ IF added = <<>>
                THEN new = old \/ new \in TRANSITIONS[old]
                ELSE /\ Chain(added, old, new)
                     /\ \A i \in DOMAIN added :
                           added[i].new_status \in TRANSITIONS[added[i].previous_status]]_vars

\* C4: once the status of a task is audit_passed or cancelled no operation
\* changes it
C4_TerminalStatuses ==
    [][\A task_id \in DOMAIN tasks :
          tasks[task_id].status \in {"audit_passed", "cancelled"}
          => tasks'[task_id].status = tasks[task_id].status]_vars

\* C6: update_task_status_from_workflow adds no log row, and calling it again
\* while the steps are as they were, at the same or a later time, leaves the
\* task as the first call left it
C6_SyncIdempotent ==
    [][\A task_id \in DOMAIN tasks :
          UpdateTaskStatusFromWorkflow(task_id)
          => /\ logs' = logs
             /\ \A again \in now..MaxClock :
                   \A current \in IF get_current_step(steps, task_id) = {} THEN {0}
                                  ELSE get_current_step(steps, task_id) :
                      update_task_status_from_workflow(tasks'[task_id], steps, task_id,
                                                       current, again)
                         = tasks'[task_id]]_vars

\* C7: every change of the status of a task comes with exactly one log row
\* with field_name 'status' that records it, added by the same operation
C7_StatusChangesLogged ==
    [][\A task_id \in DOMAIN tasks :
          LET added == AddedStatusLogs(task_id)
          IN IF added = <<>>
             THEN tasks'[task_id].status = tasks[task_id].status
             ELSE Chain(added, tasks[task_id].status, tasks'[task_id].status)]_vars

\* C8: create_task requests that have all called generate_ticket_id before any
\* of them commits hold different ticket ids, and none of them fails at its
\* commit: every one of the tasks is created
C8_TicketIdsUnique ==
    /\ \A r, q \in Requests :
          (r # q /\ creating[r].pc = "generated" /\ creating[q].pc = "generated")
          => creating[r].ticket_id # creating[q].ticket_id
    /\ call # Called("create_task", "IntegrityError")

\* the request run alone: it loads the row as the database holds it
Serially(db, q, t) == Handled(db, q, db.tasks[q.task_id], t)

\* the results of running request a and then request b, one after the other
SerialOutcomes(a, b) ==
    {Serially(Serially(base, a, t[1]), b, t[2]) :
        t \in {c \in (0..MaxClock) \X (0..MaxClock) : c[1] <= c[2]}}

\* C9: two task_detail requests on the same task that were handled at the same
\* time leave the task and the log as one of the two orders of running them one
\* after the other leaves them
C9_RequestsSerialized ==
    \A r, q \in Racers :
        (/\ r # q
         /\ reqs[r].pc = "done" /\ reqs[q].pc = "done"
         /\ \A p \in Racers \ {r, q} : reqs[p].pc = "idle")
        => [tasks |-> tasks, logs |-> logs]
               \in SerialOutcomes(reqs[r], reqs[q]) \cup SerialOutcomes(reqs[q], reqs[r])

\* C11: an audit_fail request on a task under audit, made by its auditor or a
\* manager with no or a well-formed new completion date, is carried out, and
\* when it is carried out the task ends in_progress with revision_count one
\* higher and audit_notes equal to the notes of the request
C11_AuditFailLoopsBack ==
    [][\A task_id \in DOMAIN tasks, u \in Users, notes \in Notes :
          \A submission \in FormSubmissions("audit_fail"), new_date \in FormDates("audit_fail") :
             (/\ TaskDetail(task_id, u, "audit_fail", notes, submission, new_date)
              /\ tasks[task_id].status = "under_audit")
             => /\ (can_view(tasks[task_id], u) /\ only_auditor(tasks[task_id], u)
                       /\ new_date # BadDate)
                      => call' = Succeeded
                /\ call' = Succeeded
                      => /\ tasks'[task_id].status = "in_progress"
                         /\ tasks'[task_id].revision_count = tasks[task_id].revision_count + 1
                         /\ tasks'[task_id].audit_notes = notes
                         /\ Chain(AddedStatusLogs(task_id), "under_audit", "in_progress")
                         /\ Len(AddedStatusLogs(task_id)) = 2]_vars

\* a failed audit has sent the task back to its assignee with the notes
C11_Witness ==
    /\ Len(logs) >= 2
    /\ logs[Len(logs) - 1].new_status = "audit_failed"
    /\ logs[Len(logs)].previous_status = "audit_failed"
    /\ logs[Len(logs)].notes = "Returned for revision"
    /\ tasks[1].status = "in_progress"
    /\ tasks[1].revision_count = 1
    /\ tasks[1].audit_notes \in Notes

\* the steps of a task that are neither passed nor cancelled
OpenSteps(task_id) ==
    {i \in DOMAIN steps : /\ steps[i].task_id = task_id
                          /\ steps[i].status \notin {"audit_passed", "cancelled"}}

\* the open steps of a task with the lowest step_order
FirstOpenSteps(task_id) ==
    {i \in OpenSteps(task_id) :
        \A j \in OpenSteps(task_id) : steps[i].step_order <= steps[j].step_order}

AllStepsPassed(task_id) ==
    \A i \in DOMAIN steps : steps[i].task_id = task_id => steps[i].status = "audit_passed"

\* the map from the status of the current step to the status of the task
StatusOfStep ==
    [pending |-> "assigned", in_progress |-> "in_progress", completed |-> "completed",
     under_audit |-> "under_audit", audit_failed |-> "audit_failed",
     audit_passed |-> "in_progress"]

\* C12: update_task_status_from_workflow on a task that has steps, not all of
\* them passed, and a current step leaves the task in the status the map
\* gives for the status of the current step
C12_StatusFromCurrentStep ==
    [][\A task_id \in DOMAIN tasks :
          (/\ UpdateTaskStatusFromWorkflow(task_id)
           /\ ~AllStepsPassed(task_id)
           /\ FirstOpenSteps(task_id) # {})
          => \E i \in FirstOpenSteps(task_id) :
                tasks'[task_id].status = StatusOfStep[steps[i].status]]_vars

\* the task took the status audit_failed from its current step
C12_Witness ==
    /\ tasks[1].status = "audit_failed"
    /\ tasks[1].revision_count = 0
    /\ \E i \in FirstOpenSteps(1) : steps[i].status = "audit_failed"

StepsOf(task_id) == {i \in DOMAIN steps : steps[i].task_id = task_id}

\* C13: once every step of a task that has steps is audit_passed,
\* is_workflow_complete is true, and update_task_status_from_workflow leaves
\* the task audit_passed with completed_date and audit_date set, whatever
\* its status was
C13_CompleteForcesAuditPassed ==
    [][\A task_id \in DOMAIN tasks :
          (StepsOf(task_id) # {} /\ AllStepsPassed(task_id))
          => /\ is_workflow_complete(steps, task_id)
             /\ UpdateTaskStatusFromWorkflow(task_id)
                => /\ tasks'[task_id].status = "audit_passed"
                   /\ tasks'[task_id].completed_date # NoDate
                   /\ tasks'[task_id].audit_date # NoDate]_vars

\* a cancelled task was made audit_passed when its last step passed
C13_Witness ==
    /\ StepsOf(1) # {} /\ AllStepsPassed(1)
    /\ logs[Len(logs)].new_status = "cancelled"
    /\ tasks[1].status = "audit_passed"
    /\ tasks[1].completed_date # NoDate
    /\ tasks[1].audit_date # NoDate

\* C14 as claimed: is_workflow_complete is true exactly when every step of
\* the task is audit_passed, also for a task without steps
C14_CompleteIffAllPassed ==
    \A task_id \in DOMAIN tasks :
        is_workflow_complete(steps, task_id) <=> AllStepsPassed(task_id)

\* C14 as amended: is_workflow_complete is true exactly when the task has at
\* least one step and every step of the task is audit_passed
C14_CompleteIffStepsAllPassed ==
    \A task_id \in DOMAIN tasks :
        is_workflow_complete(steps, task_id)
            <=> (StepsOf(task_id) # {} /\ AllStepsPassed(task_id))

\* both steps of the task have passed
C14_Witness ==
    /\ Cardinality(StepsOf(1)) = 2
    /\ AllStepsPassed(1)
    /\ is_workflow_complete(steps, 1)

\* C15: get_current_step returns no step exactly when the task has no step
\* that is neither audit_passed nor cancelled, and otherwise a step that is
\* neither and has the lowest step_order among those
C15_CurrentStepIsFirstOpen ==
    \A task_id \in DOMAIN tasks :
        /\ get_current_step(steps, task_id) = {} <=> OpenSteps(task_id) = {}
        /\ \A i \in get_current_step(steps, task_id) :
              /\ i \in OpenSteps(task_id)
              /\ \A j \in OpenSteps(task_id) : steps[i].step_order <= steps[j].step_order
        /\ \A i \in FirstOpenSteps(task_id) : i \in get_current_step(steps, task_id)

\* the first step has passed and the second, its audit failed, is current
C15_Witness ==
    /\ Len(steps) = 2
    /\ steps[1].step_order < steps[2].step_order
    /\ steps[1].status = "audit_passed"
    /\ steps[2].status = "audit_failed"
    /\ get_current_step(steps, 1) = {2}

\* the rows an action added to table workflow_steps
AddedSteps == SubSeq(steps', Len(steps) + 1, Len(steps'))

\* C16: a generate_workflow_steps that returns creates one step for each
\* active template and none for an inactive one, each step pending, with the
\* step_order and tat_hours of its template and the assignee and auditor
\* step_assignments gives for that step_order, none where it gives none
C16_OneStepPerActiveTemplate ==
    [][\A task_id \in DOMAIN tasks, a \in StepAssignments :
          (GenerateWorkflowSteps(task_id, a) /\ call'.result \in {"", "[]"})
          => /\ \A k \in DOMAIN templates :
                   Cardinality({i \in DOMAIN AddedSteps : AddedSteps[i].step_template_id = k})
                      = IF templates[k].is_active THEN 1 ELSE 0
             /\ \A i \in DOMAIN AddedSteps :
                   LET step == AddedSteps[i]
                       template == templates[step.step_template_id]
                   IN /\ step.step_template_id \in DOMAIN templates
                      /\ step.task_id = task_id
                      /\ step.status = "pending"
                      /\ step.step_order = template.step_order
                      /\ step.tat_hours = template.tat_hours
                      /\ IF template.step_order \in DOMAIN a
                         THEN /\ step.assigned_to_id = a[template.step_order].assigned_to_id
                              /\ step.auditor_id = a[template.step_order].auditor_id
                         ELSE /\ step.assigned_to_id = NoUser
                              /\ step.auditor_id = NoUser]_vars

\* two steps were created from a table with an inactive template, the first
\* with the assignee and auditor given for it
C16_Witness ==
    /\ \E k \in DOMAIN templates : ~templates[k].is_active
    /\ Len(steps) = 2
    /\ steps[1].status = "pending" /\ steps[2].status = "pending"
    /\ steps[1].assigned_to_id = 3 /\ steps[1].auditor_id = 2
    /\ steps[2].assigned_to_id = NoUser

\* C17: a materialization that finds no active template fails with
\* NoActiveTemplates and creates no step
C17_NoActiveTemplatesFails ==
    (call.op = "generate_workflow_steps" /\ active(templates) = {})
    => (call.result = "NoActiveTemplates" /\ steps = <<>>)

\* C18: table workflow_steps never holds two steps with the same task_id and
\* step_order
C18_OneStepPerOrder ==
    \A i, j \in DOMAIN steps :
        (steps[i].task_id = steps[j].task_id /\ steps[i].step_order = steps[j].step_order)
        => i = j

\* C19: of the steps a generate_workflow_steps creates, the first is planned
\* at the deadline computed from the task's created_at and its tat_hours,
\* every later one at the deadline computed from the planned_ptp of the step
\* created before it and its own tat_hours, and planned_ptp does not
\* decrease as step_order grows
C19_PlannedPtpPropagates ==
    [][\A task_id \in DOMAIN tasks, a \in StepAssignments :
          (GenerateWorkflowSteps(task_id, a) /\ call' = Succeeded)
          => \A i \in DOMAIN AddedSteps :
                /\ AddedSteps[i].planned_ptp =
                      planDeadline(calendar,
                                   IF i = 1 THEN InstantOf(tasks[task_id].created_at)
                                   ELSE AddedSteps[i - 1].planned_ptp,
                                   AddedSteps[i].tat_hours)
                /\ \A j \in DOMAIN AddedSteps :
                      AddedSteps[i].step_order < AddedSteps[j].step_order
                      => AddedSteps[i].planned_ptp <= AddedSteps[j].planned_ptp]_vars

\* under the office calendar the task created on Monday 00:00 has its step
\* of 24 hours planned for Wednesday 15:00 and the next, of 12 hours, for
\* Thursday 18:00
C19_Witness ==
    /\ calendar = Office
    /\ Len(steps) = 2
    /\ steps[1].tat_hours = 24 /\ steps[1].planned_ptp = 2 * HoursPerDay + 15
    /\ steps[2].tat_hours = 12 /\ steps[2].planned_ptp = 3 * HoursPerDay + 18

\* C20: a deadline planDeadline computes is an instant of a working day of
\* the week that is no holiday, not before the start and not after the end
\* of that day's window; it computes one whenever the calendar has a working
\* day, never one before the start instant
C20_DeadlineInWorkingWindow ==
    plan # NoPlan
    => IF plan.deadline = CalendarExhausted
       THEN \A d \in 0..(DaysPerWeek - 1) : ~calendar.hours[d].is_working_day
       ELSE LET d == plan.deadline \div HoursPerDay
                h == plan.deadline % HoursPerDay
                hours == calendar.hours[d % DaysPerWeek]
            IN /\ plan.deadline >= plan.start
               /\ hours.is_working_day
               /\ hours.start_time <= h /\ h <= hours.end_time
               /\ \A holiday \in calendar.holidays :
                     /\ ~holiday.is_recurring => holiday.date # d
                     /\ holiday.is_recurring
                           => holiday.date % DaysPerYear # d % DaysPerYear

\* two hours asked for on Friday 17:00 end on Monday 10:00
C20_Witness ==
    /\ calendar = Office
    /\ plan # NoPlan
    /\ plan.start = 4 * HoursPerDay + 17
    /\ plan.tat_hours = 2
    /\ plan.deadline = 7 * HoursPerDay + 10

\* the sequence numbers of the tickets of a day
SequencesOf(rows, date) ==
    {ParseInt(id.seq) : id \in {o \in TicketIds(rows) : o.date = date}}

Highest(numbers) == CHOOSE n \in numbers : \A o \in numbers : o <= n

\* C21: the ticket id create_task gives a new task carries the day of the
\* request and a sequence of exactly three digits, 001 when the table holds
\* no ticket of that day and otherwise the highest sequence number of that
\* day plus 1, however many tickets the day has
C21_TicketIdFormat ==
    [][\A u \in Users, assignee \in Users :
          (CreateTaskOfDay(u, assignee) /\ call' = Succeeded)
          => LET id == tasks'[Len(tasks')].ticket_id
                 issued == SequencesOf(tasks, DateOf(now))
             IN /\ id.date = DateOf(now)
                /\ Len(id.seq) = 3
                /\ \A i \in DOMAIN id.seq : id.seq[i] \in 0..9
                /\ ParseInt(id.seq) = IF issued = {} THEN 1 ELSE Highest(issued) + 1]_vars

\* the 'Task created' rows of a task
CreationLogs(task_id) ==
    {i \in DOMAIN logs : logs[i].task_id = task_id /\ logs[i].action = "Task created"}

\* C22: every task of the table has its 'Task created' log row, unless the
\* create_task request that made it is still on its way to add the row
C22_TaskCreatedWithLog ==
    \A task_id \in DOMAIN tasks :
        (\A r \in Requests :
            creating[r].pc = "committed" => creating[r].task_id # task_id)
        => CreationLogs(task_id) # {}

\* C23: a successful transition_to into under_audit sets auditor_id to
\* created_by_id when it was unset and leaves it when it was set; every
\* other call of transition_to leaves auditor_id as it was
C23_AuditorAssignedOnce ==
    [][\A task_id \in DOMAIN tasks, new_status \in STATES, u \in Callers, notes \in Notes :
          TransitionTo(task_id, new_status, u, notes)
          => LET task == tasks[task_id]
                 entered == /\ new_status = "under_audit"
                            /\ new_status \in TRANSITIONS[task.status]
             IN tasks'[task_id].auditor_id =
                   IF entered /\ task.auditor_id = NoUser
                   THEN task.created_by_id
                   ELSE task.auditor_id]_vars

\* the task whose auditor was set by hand came under audit a second time
\* and kept that auditor, who is not its creator
C23_Witness ==
    /\ tasks[1].status = "under_audit"
    /\ tasks[1].revision_count = 1
    /\ tasks[1].auditor_id = 1
    /\ tasks[1].created_by_id = 2

\* C24: a call of transition_to changes revision_count and audit_notes only
\* when it goes into audit_failed, completed_date only when it goes into
\* completed, and audit_date only when it goes into audit_passed or
\* audit_failed
C24_DatesAndNotesFrame ==
    [][\A task_id \in DOMAIN tasks, new_status \in STATES, u \in Callers, notes \in Notes :
          TransitionTo(task_id, new_status, u, notes)
          => LET old == tasks[task_id]
                 new == tasks'[task_id]
             IN /\ new_status # "audit_failed"
                   => /\ new.revision_count = old.revision_count
                      /\ new.audit_notes = old.audit_notes
                /\ new_status # "completed" => new.completed_date = old.completed_date
                /\ new_status \notin {"audit_passed", "audit_failed"}
                   => new.audit_date = old.audit_date]_vars

\* on the second day the task is under audit again, with the completion
\* date of that day and the audit date, notes and count of the day before
C24_Witness ==
    /\ now = 1
    /\ tasks[1].status = "under_audit"
    /\ tasks[1].revision_count = 1
    /\ tasks[1].audit_notes \in Notes
    /\ tasks[1].audit_date = 0
    /\ tasks[1].completed_date = 1

\* C25: between two task_detail requests the status of a task is assigned,
\* in_progress, under_audit, audit_passed or cancelled, never completed or
\* audit_failed
C25_CommittedStatuses ==
    \A task_id \in DOMAIN tasks :
        tasks[task_id].status \in
            {"assigned", "in_progress", "under_audit", "audit_passed", "cancelled"}

\* the log shows the task passed through completed and through audit_failed,
\* and it is back in progress
C25_Witness ==
    /\ \E i \in DOMAIN logs :
          logs[i].previous_status = "in_progress" /\ logs[i].new_status = "completed"
    /\ \E i \in DOMAIN logs :
          logs[i].previous_status = "under_audit" /\ logs[i].new_status = "audit_failed"
    /\ tasks[1].status = "in_progress"

\* the log rows of a task that record a failed audit
FailedAudits(task_id) ==
    {i \in DOMAIN logs : logs[i].task_id = task_id /\ logs[i].new_status = "audit_failed"}

\* C26: the revision_count of a task is the number of its log rows with
\* new_status audit_failed
C26_RevisionCountIsFailedAudits ==
    \A task_id \in DOMAIN tasks :
        tasks[task_id].revision_count = Cardinality(FailedAudits(task_id))

\* the task was cancelled in its revision after one failed audit
C26_Witness ==
    /\ Cardinality(FailedAudits(1)) = 1
    /\ tasks[1].revision_count = 1
    /\ logs[Len(logs)].previous_status = "in_progress"
    /\ tasks[1].status = "cancelled"

\* the status rows of the log of a task, in the order of their creation
StatusLogs(task_id) ==
    SelectSeq(logs, LAMBDA l : l.task_id = task_id /\ l.field_name = "status")

\* C27: the status rows of a task's log form a chain: the first starts from
\* assigned, each later one starts from the status the row before it ended
\* in, and the last one ends in the status the task has
C27_StatusLogIsChain ==
    \A task_id \in DOMAIN tasks :
        LET rows == StatusLogs(task_id)
        IN rows # <<>>
           => /\ rows[1].previous_status = "assigned"
              /\ \A i \in 1..(Len(rows) - 1) :
                    rows[i + 1].previous_status = rows[i].new_status
              /\ rows[Len(rows)].new_status = tasks[task_id].status

\* C28: a task under audit has an auditor, and a task that passed its audit
\* has a completion date and an audit date, the first not after the second
C28_AuditedTaskIsDated ==
    \A task_id \in DOMAIN tasks :
        LET task == tasks[task_id]
        IN /\ task.status = "under_audit" => task.auditor_id # NoUser
           /\ task.status = "audit_passed"
              => /\ task.completed_date # NoDate
                 /\ task.audit_date # NoDate
                 /\ task.completed_date <= task.audit_date

\* the task was completed on the first day and passed its audit, by the
\* creator it was given as auditor, on the second
C28_Witness ==
    /\ tasks[1].status = "audit_passed"
    /\ tasks[1].auditor_id = tasks[1].created_by_id
    /\ tasks[1].completed_date = 0
    /\ tasks[1].audit_date = 1

\* the actions a POST of user u would carry out on the task, for some
\* content of the form
Accepted(task, task_id, u) ==
    {action \in Actions :
        \E notes \in Notes, submission \in FormSubmissions(action),
           new_date \in FormDates(action) :
           task_detail(task, task_id, u, action, notes, submission, new_date, now).commit}

\* C29: the actions the page of a task offers to a user are the actions a
\* POST of that user would carry out on the task
C29_OfferedIsAccepted ==
    [][\A task_id \in DOMAIN tasks, u \in Users :
          (TaskDetailView(task_id, u) /\ can_view(tasks[task_id], u))
          => call'.offered = Accepted(tasks[task_id], task_id, u)]_vars

\* C30: every user a task names as its creator, assignee or auditor and
\* every user a log row names exists in table users
C30_ReferencedUsersExist ==
    /\ \A i \in DOMAIN tasks :
          /\ tasks[i].created_by_id \in users
          /\ tasks[i].assigned_to_id \in users \cup {NoUser}
          /\ tasks[i].auditor_id \in users \cup {NoUser}
    /\ \A i \in DOMAIN logs : logs[i].user_id \in users

\* the assignee no row names was deleted; the deletion of the manager who
\* only cancelled the task of others failed and the manager is still there
C30_Witness ==
    /\ call = Called("delete_user", "IntegrityError")
    /\ users = {1, 2}
    /\ tasks[1].created_by_id # 2 /\ tasks[1].assigned_to_id # 2
    /\ logs[Len(logs)].user_id = 2
    /\ logs[Len(logs)].new_status = "cancelled"

====
